---------------------------- MODULE Spec2Model ----------------------------
(***************************************************************************)
(* Model of the viptela API client: the response normaliser                *)
(* (parse_http_success, parse_http_error, parse_response), the post-check  *)
(* helper (check_post_response) and the bulk template importer             *)
(* (import_provisioning_templates) of viptela/utils.py.                    *)
(*                                                                         *)
(* JSON values are tagged records, one tag per JSON type, so that Python's *)
(* truthiness, subscripting and json decoding are modelled by what they    *)
(* do on each type.                                                        *)
(***************************************************************************)
EXTENDS Integers, Sequences, FiniteSets, TLC

VARIABLES
    \* the normaliser applied to one response
    response,   \* the requests response handed to the normaliser
    called,     \* which normaliser entry point has been applied to it
    result,     \* what that call produced: a Result, None, or an exception
    \* import_provisioning_templates and the target it talks to
    template_dict,        \* the input: device templates, feature and policy bundles
    target,               \* the target's feature templates, policies, device templates
    faults,               \* how many more requests the target may answer with an error
    run,                  \* 1 for the first call of the importer, 2 for the second
    pc,                   \* where the importer stands
    idx,                  \* index of the device template of the current iteration
    fi,                   \* index of the feature entry of the inner loop
    id_map,               \* old template ID -> new template ID
    new_device_template,  \* the copy that is rewritten and POSTed
    raised,               \* the exception that ended the call, "" if none
    requests,             \* every request issued so far, in order
    log,                  \* the records check_post_response logged
    snapshot,             \* the target as the first call left it
    \* check_post_response and the HTTP helpers of the Viptela class
    checked,    \* the call of check_post_response on result, and how far it got
    args,       \* what the caller handed to Viptela.get/put/post/delete
    sent        \* what the session's method was called with

parseVars == <<response, called, result>>
engineVars == <<template_dict, target, faults, run, pc, idx, fi, id_map,
                new_device_template, raised, requests, log, snapshot>>
callVars == <<checked, args, sent>>
vars == <<parseVars, engineVars, callVars>>

-----------------------------------------------------------------------------
(* Bounds of the model *)

\* longest JSON list that occurs in a response body of the normaliser model
MaxItems == 1
\* most device templates in one batch
MaxTemplates == 2
\* most requests of one behaviour that the target answers with an error
MaxFaults == 1

-----------------------------------------------------------------------------
(* JSON values *)

JNull == [t |-> "null"]
JBool(b) == [t |-> "bool", b |-> b]
JNum(n) == [t |-> "num", n |-> n]
JStr(s) == [t |-> "str", s |-> s]
JList(items) == [t |-> "list", items |-> items]
JObj(f) == [t |-> "obj", f |-> f]
\* the body of a response that is not JSON at all ('bad json')
NotJson == [t |-> "text"]
\* the exception object that parse_http_error stores in Result.error
ExcValue(name) == [t |-> "exc", e |-> name]

EmptyFcn == [k \in {} |-> JNull]
EmptyDict == JObj(EmptyFcn)

\* Python truthiness of a decoded JSON value: None, False, 0, '', [], {} are falsy
Truthy(v) ==
    CASE v.t = "null" -> FALSE
      [] v.t = "bool" -> v.b
      [] v.t = "num" -> v.n # 0
      [] v.t = "str" -> v.s # ""
      [] v.t = "list" -> Len(v.items) > 0
      [] v.t = "obj" -> DOMAIN v.f # {}
      [] OTHER -> TRUE

-----------------------------------------------------------------------------
(* constants.py *)

DATA == "data"
CONFIG == "config"
TEMPLATE_DEFINITION == "templateDefinition"
ERROR == "error"

HTTP_SUCCESS_CODES == {200}
HTTP_ERROR_CODES == {400, 403, 404, 406, 415, 500}

HTTP_RESPONSE_CODES(code) ==
    CASE code = 200 -> "Success"
      [] code = 400 -> "Bad Request"
      [] code = 403 -> "Forbidden"
      [] code = 404 -> "API Not found"
      [] code = 406 -> "Not Acceptable Response"
      [] code = 415 -> "Unsupported Media Type"
      [] code = 500 -> "Internal Server Error"

HasResponseCode(code) == code \in HTTP_SUCCESS_CODES \cup HTTP_ERROR_CODES

-----------------------------------------------------------------------------
(* Outcomes of a call: a Result, None, or a raised exception *)

MkResult(resp, ok, reason, error, data) ==
    [kind |-> "Result", ok |-> ok, status_code |-> resp.status_code,
     reason |-> reason, error |-> error, data |-> data, response |-> resp]
Raise(name) == [kind |-> "Raise", exc |-> name]
NoneValue == [kind |-> "None"]
Pending == [kind |-> "Pending"]

\* requests.Response.ok: raise_for_status() raises for 4xx and 5xx only
ResponseOk(resp) == resp.status_code < 400

\* response.json() / json.loads(response.text): the decoded value, or a
\* JSONDecodeError when the text is not JSON
IsJson(resp) == resp.body.t # "text"

\* d.get(key) on a decoded body: the value, or None when the key is absent
DictGet(v, key) == IF key \in DOMAIN v.f THEN v.f[key] ELSE JNull

\* v[key] on a decoded value: only a dict that holds the key can be subscripted
CanSubscript(v, key) == v.t = "obj" /\ key \in DOMAIN v.f
\* the exception v[key] raises otherwise: KeyError on a dict, TypeError on
\* a list, a string, a number or None
SubscriptError(v) == IF v.t = "obj" THEN "KeyError" ELSE "TypeError"

-----------------------------------------------------------------------------
(* The response normaliser *)

\* the Result both parsers build from what they worked out
BuildResult(resp, reason, error, json_response) ==
    MkResult(resp, ResponseOk(resp), reason, error, json_response)

\* a parse_http_error that reports every response as ok
BuildErrorResult_OkTrue(resp, reason, error) ==
    MkResult(resp, TRUE, reason, error, EmptyDict)

BuildErrorResult(resp, reason, error) ==
    BuildResult(resp, reason, error, EmptyDict)

\* an if/elif chain that probes 'config' before 'data'
UnwrapKey_ConfigFirst(body) ==
    IF Truthy(DictGet(body, CONFIG)) THEN CONFIG
    ELSE IF Truthy(DictGet(body, DATA)) THEN DATA
    ELSE IF Truthy(DictGet(body, TEMPLATE_DEFINITION)) THEN TEMPLATE_DEFINITION
    ELSE ""

\* an if/elif chain that tests the presence of the key, not its value
UnwrapKey_PresenceOnly(body) ==
    IF DATA \in DOMAIN body.f THEN DATA
    ELSE IF CONFIG \in DOMAIN body.f THEN CONFIG
    ELSE IF TEMPLATE_DEFINITION \in DOMAIN body.f THEN TEMPLATE_DEFINITION
    ELSE ""

\* the if/elif chain of the GET branch: the key whose value becomes the
\* data, or "" when the else branch is taken
UnwrapKey(body) ==
    IF Truthy(DictGet(body, DATA)) THEN DATA
    ELSE IF Truthy(DictGet(body, CONFIG)) THEN CONFIG
    ELSE IF Truthy(DictGet(body, TEMPLATE_DEFINITION)) THEN TEMPLATE_DEFINITION
    ELSE ""

\* a write branch that unwraps the 'data' key as the GET branch does
DecodeWriteBody_Unwrap(resp) ==
    IF ~IsJson(resp) THEN EmptyDict
    ELSE IF CanSubscript(resp.body, DATA) THEN resp.body.f[DATA]
    ELSE resp.body

\* the try/except of the write branch: the decoded body, or an empty dict
\* when the text is not JSON
DecodeWriteBody(resp) == IF IsJson(resp) THEN resp.body ELSE EmptyDict

ParseHttpSuccess(resp) ==
    IF resp.method \in {"GET"}
    THEN IF ~HasResponseCode(resp.status_code) THEN Raise("KeyError")
         ELSE IF ~IsJson(resp) THEN Raise("JSONDecodeError")
         ELSE IF resp.body.t # "obj" THEN Raise("AttributeError")
         ELSE LET body == resp.body
                  reason == JStr(HTTP_RESPONSE_CODES(resp.status_code))
                  key == UnwrapKey(body)
              IN  IF key # ""
                  THEN BuildResult(resp, reason, JStr(""), body.f[key])
                  ELSE BuildResult(resp, reason, JStr("No data received from device"),
                                   EmptyDict)
    ELSE LET json_response == DecodeWriteBody(resp)
         IN  IF ~HasResponseCode(resp.status_code) THEN Raise("KeyError")
             ELSE BuildResult(resp, JStr(HTTP_RESPONSE_CODES(resp.status_code)),
                              JStr(""), json_response)

\* a parse_http_error that reads reason from 'message' and error from 'details'
ParseHttpError_Swapped(resp) ==
    IF ~IsJson(resp)
    THEN IF ~HasResponseCode(resp.status_code) THEN Raise("KeyError")
         ELSE BuildErrorResult(resp, JStr(HTTP_RESPONSE_CODES(resp.status_code)),
                               ExcValue("JSONDecodeError"))
    ELSE LET decoded_response == resp.body
         IN  IF ~CanSubscript(decoded_response, ERROR)
             THEN Raise(SubscriptError(decoded_response))
             ELSE LET err == decoded_response.f[ERROR]
                  IN  IF ~CanSubscript(err, "details") THEN Raise(SubscriptError(err))
                      ELSE IF ~CanSubscript(err, "message") THEN Raise(SubscriptError(err))
                      ELSE BuildErrorResult(resp, err.f["message"], err.f["details"])

\* a parse_http_error whose except branch drops the exception and keeps
\* error empty
ParseHttpError_ErrorDropped(resp) ==
    IF ~IsJson(resp)
    THEN IF ~HasResponseCode(resp.status_code) THEN Raise("KeyError")
         ELSE BuildErrorResult(resp, JStr(HTTP_RESPONSE_CODES(resp.status_code)),
                               JStr(""))
    ELSE LET decoded_response == resp.body
         IN  IF ~CanSubscript(decoded_response, ERROR)
             THEN Raise(SubscriptError(decoded_response))
             ELSE LET err == decoded_response.f[ERROR]
                  IN  IF ~CanSubscript(err, "details") THEN Raise(SubscriptError(err))
                      ELSE IF ~CanSubscript(err, "message") THEN Raise(SubscriptError(err))
                      ELSE BuildErrorResult(resp, err.f["details"], err.f["message"])

ParseHttpError(resp) ==
    IF ~IsJson(resp)
    THEN IF ~HasResponseCode(resp.status_code) THEN Raise("KeyError")
         ELSE BuildErrorResult(resp, JStr(HTTP_RESPONSE_CODES(resp.status_code)),
                               ExcValue("JSONDecodeError"))
    ELSE LET decoded_response == resp.body
         IN  IF ~CanSubscript(decoded_response, ERROR)
             THEN Raise(SubscriptError(decoded_response))
             ELSE LET err == decoded_response.f[ERROR]
                  IN  IF ~CanSubscript(err, "details") THEN Raise(SubscriptError(err))
                      ELSE IF ~CanSubscript(err, "message") THEN Raise(SubscriptError(err))
                      ELSE BuildErrorResult(resp, err.f["details"], err.f["message"])

\* a parse_response that hands every code outside the success set to
\* parse_http_error
ParseResponse_ErrorByDefault(resp) ==
    IF resp.status_code \in HTTP_SUCCESS_CODES THEN ParseHttpSuccess(resp)
    ELSE ParseHttpError(resp)

ParseResponse(resp) ==
    IF resp.status_code \in HTTP_SUCCESS_CODES THEN ParseHttpSuccess(resp)
    ELSE IF resp.status_code \in HTTP_ERROR_CODES THEN ParseHttpError(resp)
    ELSE NoneValue

-----------------------------------------------------------------------------
(* Responses the normaliser is applied to *)

Methods == {"GET", "POST", "PUT", "DELETE"}
\* the classified codes, and two codes of neither set
StatusCodes == HTTP_SUCCESS_CODES \cup HTTP_ERROR_CODES \cup {201, 302}

Item == JObj([k \in {"key"} |-> JStr("value")])
Lists == {JList([i \in 1..m |-> Item]) : m \in 0..MaxItems}
ErrorDetail(d, m) == JObj([k \in {"details", "message"} |->
                             IF k = "details" THEN JStr(d) ELSE JStr(m)])
ErrorVals ==
    { ErrorDetail("error_details", "error_message"),
      ErrorDetail("error_details", ""),
      JObj([k \in {"details"} |-> JStr("error_details")]),
      JObj([k \in {"message"} |-> JStr("error_message")]),
      JStr("error_message") }
PayloadVals == {JNull, JNum(0), JStr("Some Config"), EmptyDict} \cup Lists
PayloadKeys == {DATA, CONFIG, TEMPLATE_DEFINITION}
ObjectBodies ==
    { JObj(f) : f \in { g \in UNION {[S -> PayloadVals \cup ErrorVals] :
                                       S \in SUBSET (PayloadKeys \cup {ERROR})} :
                          \A k \in DOMAIN g :
                              IF k = ERROR THEN g[k] \in ErrorVals
                                           ELSE g[k] \in PayloadVals } }
Bodies == {NotJson, JNull, JNum(0), JStr("Some Config")} \cup Lists \cup ObjectBodies
Responses == [status_code : StatusCodes, method : Methods, body : Bodies]

-----------------------------------------------------------------------------
(* The normaliser applied to one response *)

\* the importer is not running
EngineIdle ==
    /\ template_dict = <<>>
    /\ target = <<>>
    /\ faults = 0
    /\ run = 0
    /\ pc = "idle"
    /\ idx = 0
    /\ fi = 0
    /\ id_map = <<>>
    /\ new_device_template = <<>>
    /\ raised = ""
    /\ requests = <<>>
    /\ log = <<>>
    /\ snapshot = <<>>

\* check_post_response has not been called, nor has an HTTP helper
NotChecked == [stage |-> "none"]
NotSent == [method |-> "none"]
CallIdle ==
    /\ checked = NotChecked
    /\ args = NotSent
    /\ sent = NotSent

InitParse ==
    /\ response \in Responses
    /\ called = "none"
    /\ result = Pending
    /\ EngineIdle
    /\ CallIdle

CallParseResponse ==
    /\ called = "none"
    /\ called' = "parse_response"
    /\ result' = ParseResponse(response)
    /\ UNCHANGED <<response, engineVars, callVars>>

CallParseHttpSuccess ==
    /\ called = "none"
    /\ called' = "parse_http_success"
    /\ result' = ParseHttpSuccess(response)
    /\ UNCHANGED <<response, engineVars, callVars>>

CallParseHttpError ==
    /\ called = "none"
    /\ called' = "parse_http_error"
    /\ result' = ParseHttpError(response)
    /\ UNCHANGED <<response, engineVars, callVars>>

\* a test 'if response.error is None' in the place of 'if not response.error'
PostFailed_NotNone(res) == res.error # JNull
\* 'if not response.error' of check_post_response
PostFailed(res) == Truthy(res.error)
\* the records check_post_response logs for res: the reason that fills
\* 'Failure in POST operation: {}.'
CheckLog(res) == IF PostFailed(res) THEN << res.reason >> ELSE <<>>
\* a check_post_response that raises on every failure
CheckRaises_Always(res, raise_error) == PostFailed(res)
\* whether check_post_response raises
CheckRaises(res, raise_error) == PostFailed(res) /\ raise_error

\* check_post_response is handed what parse_response returned: it tests the
\* error, returns at once when there is none, and logs the failure otherwise
CallCheckPostResponse ==
    /\ called = "parse_response"
    /\ result.kind \in {"Result", "None"}
    /\ checked.stage = "none"
    /\ \E raise_error \in BOOLEAN :
         checked' =
            IF result.kind = "None"
            THEN [stage |-> "raised", raise_error |-> raise_error, records |-> <<>>,
                  exc |-> "AttributeError"]
            ELSE IF ~PostFailed(result)
            THEN [stage |-> "returned", raise_error |-> raise_error, records |-> <<>>,
                  value |-> result]
            ELSE [stage |-> "logged", raise_error |-> raise_error,
                  records |-> CheckLog(result)]
    /\ UNCHANGED <<parseVars, engineVars, args, sent>>

\* after the log record: the exception if raise_error, the response otherwise
EndCheckPostResponse ==
    /\ checked.stage = "logged"
    /\ checked' =
          IF CheckRaises(result, checked.raise_error)
          THEN [stage |-> "raised", raise_error |-> checked.raise_error,
                records |-> checked.records, exc |-> "Failure in POST operation."]
          ELSE [stage |-> "returned", raise_error |-> checked.raise_error,
                records |-> checked.records, value |-> result]
    /\ UNCHANGED <<parseVars, engineVars, args, sent>>

NextParse ==
    \/ CallParseResponse
    \/ CallParseHttpSuccess
    \/ CallParseHttpError
    \/ CallCheckPostResponse
    \/ EndCheckPostResponse

SpecParse == InitParse /\ [][NextParse]_vars

-----------------------------------------------------------------------------
(* Properties of the normaliser, checked under SpecParse *)

Classified == response.status_code \in HTTP_SUCCESS_CODES \cup HTTP_ERROR_CODES
SuccessStatus == response.status_code \in HTTP_SUCCESS_CODES
ObjectBody == response.body.t = "obj"

\* C5: for every response whose status code is in the success set or the
\* error set, whatever its method and body, parse_response returns a Result
\* and raises no exception.
C5_ParseResponseNeverRaises ==
    (called = "parse_response" /\ Classified) => result.kind = "Result"

\* C6: the data of every Result built by parse_http_success or
\* parse_http_error, for any method and any body, is never None.
C6_DataNeverNone ==
    (called \in {"parse_http_success", "parse_http_error"} /\ result.kind = "Result")
        => result.data # JNull

\* C7: for every Result returned by parse_response, ok is true if and only
\* if the status code is in the success set {200}.
C7_OkIffSuccessCode ==
    (called = "parse_response" /\ result.kind = "Result")
        => (result.ok <=> response.status_code \in {200})

C7_Witness ==
    /\ called = "parse_response"
    /\ result.kind = "Result"
    /\ response.status_code = 500
    /\ ~result.ok

\* the envelope keys in the order the claim gives them
EnvelopeOrder == <<"data", "config", "templateDefinition">>
\* the values Python holds to be empty
EmptyValues == {JNull, JBool(FALSE), JNum(0), JStr(""), JList(<<>>), EmptyDict}
PresentNonEmpty(i) ==
    /\ EnvelopeOrder[i] \in DOMAIN response.body.f
    /\ response.body.f[EnvelopeOrder[i]] \notin EmptyValues

GetSuccessCall ==
    /\ called \in {"parse_response", "parse_http_success"}
    /\ response.method = "GET"
    /\ SuccessStatus
    /\ ObjectBody

\* C8: for a GET response with a success status and a JSON-object body, data
\* is the value of the first of 'data', 'config', 'templateDefinition' that is
\* present with a non-empty value; then ok is true, reason is 'Success' and
\* error is ''.
C8_FirstNonEmptyKeyIsData ==
    GetSuccessCall =>
        \A i \in 1..3 :
            (PresentNonEmpty(i) /\ \A j \in 1..(i - 1) : ~PresentNonEmpty(j))
                => /\ result.kind = "Result"
                   /\ result.data = response.body.f[EnvelopeOrder[i]]
                   /\ result.ok
                   /\ result.reason = JStr("Success")
                   /\ result.error = JStr("")

\* a body whose 'data' is present but empty and whose 'config' is taken
C8_Witness ==
    /\ GetSuccessCall
    /\ DATA \in DOMAIN response.body.f
    /\ ~PresentNonEmpty(1)
    /\ PresentNonEmpty(2)
    /\ PresentNonEmpty(3)
    /\ result.kind = "Result"
    /\ result.data = response.body.f[CONFIG]
    /\ result.data # response.body.f[TEMPLATE_DEFINITION]

\* C9: for a GET response with a success status whose JSON-object body has
\* none of the three keys present with a non-empty value, data is the empty
\* mapping (not an empty list), ok is true, status_code is 200, reason is
\* 'Success' and error is 'No data received from device'.
C9_NoDataIsEmptyMapping ==
    (GetSuccessCall /\ \A i \in 1..3 : ~PresentNonEmpty(i))
        => /\ result.kind = "Result"
           /\ result.data = EmptyDict
           /\ result.data # JList(<<>>)
           /\ result.ok
           /\ result.status_code = 200
           /\ result.reason = JStr("Success")
           /\ result.error = JStr("No data received from device")

\* the body {"data": []}
C9_Witness ==
    /\ GetSuccessCall
    /\ DOMAIN response.body.f = {DATA}
    /\ response.body.f[DATA] = JList(<<>>)
    /\ result.kind = "Result"
    /\ result.data = EmptyDict

WriteSuccessCall ==
    /\ called \in {"parse_response", "parse_http_success"}
    /\ response.method \in {"POST", "PUT", "DELETE"}
    /\ SuccessStatus

\* C10: for a success-status response whose method is not GET, data is the
\* whole decoded JSON body; if the body is not JSON, data is the empty mapping
\* and nothing is raised; in both cases error is '' and reason is the fixed
\* phrase of the status code.
C10_WriteBodyWholeOrEmpty ==
    WriteSuccessCall
        => /\ result.kind = "Result"
           /\ response.body # NotJson => result.data = response.body
           /\ response.body = NotJson => result.data = EmptyDict
           /\ result.error = JStr("")
           /\ result.reason = JStr(HTTP_RESPONSE_CODES(response.status_code))

\* a POST whose body {"data": [...]} is kept whole
C10_Witness ==
    /\ WriteSuccessCall
    /\ response.method = "POST"
    /\ ObjectBody
    /\ PresentNonEmpty(1)
    /\ result.kind = "Result"
    /\ result.data = response.body
    /\ result.data # response.body.f[DATA]

ErrorStatus == response.status_code \in {400, 403, 404, 406, 415, 500}
ErrorCall == called \in {"parse_response", "parse_http_error"} /\ ErrorStatus
\* the body holds {"error": {"details": D, "message": M}}
ErrorEnvelope ==
    /\ ObjectBody
    /\ ERROR \in DOMAIN response.body.f
    /\ response.body.f[ERROR].t = "obj"
    /\ {"details", "message"} \subseteq DOMAIN response.body.f[ERROR].f

\* C11: for every status code of the error set and a JSON body
\* {"error": {"details": D, "message": M}}, the Result has reason D, error M,
\* ok false, data {} and the status code of the response.
C11_ErrorEnvelopeIsUnwrapped ==
    (ErrorCall /\ ErrorEnvelope)
        => /\ result.kind = "Result"
           /\ result.reason = response.body.f[ERROR].f["details"]
           /\ result.error = response.body.f[ERROR].f["message"]
           /\ ~result.ok
           /\ result.data = EmptyDict
           /\ result.status_code = response.status_code

\* a 403 whose details and message differ
C11_Witness ==
    /\ ErrorCall
    /\ ErrorEnvelope
    /\ response.status_code = 403
    /\ result.kind = "Result"
    /\ result.reason = JStr("error_details")
    /\ result.error = JStr("error_message")

\* the phrases the claim lists, code by code
ClaimedPhrase(code) ==
    CASE code = 400 -> "Bad Request"
      [] code = 403 -> "Forbidden"
      [] code = 404 -> "API Not found"
      [] code = 406 -> "Not Acceptable Response"
      [] code = 415 -> "Unsupported Media Type"
      [] code = 500 -> "Internal Server Error"

\* C12: for every status code of the error set and a body that is not JSON,
\* parse_http_error raises nothing and returns a Result whose reason is the
\* fixed phrase of the code, whose error is the non-empty decode-failure
\* object, whose data is {} and whose ok is false.
C12_BadErrorBodyIsReported ==
    (ErrorCall /\ response.body = NotJson)
        => /\ result.kind = "Result"
           /\ result.reason = JStr(ClaimedPhrase(response.status_code))
           /\ result.error = ExcValue("JSONDecodeError")
           /\ Truthy(result.error)
           /\ result.data = EmptyDict
           /\ ~result.ok

\* parse_http_error itself on a 404 with the body 'bad json'
C12_Witness ==
    /\ called = "parse_http_error"
    /\ response.status_code = 404
    /\ response.body = NotJson
    /\ result.kind = "Result"
    /\ result.reason = JStr("API Not found")
    /\ result.error.t = "exc"

\* C13: parse_response returns exactly what parse_http_success returns for a
\* code of the success set {200}, exactly what parse_http_error returns for a
\* code of the error set {400, 403, 404, 406, 415, 500}, and None for every
\* other code; the two sets are disjoint.
C13_ExactlyOneClassifier ==
    /\ HTTP_SUCCESS_CODES \cap HTTP_ERROR_CODES = {}
    /\ called = "parse_response"
          => result = IF response.status_code \in {200}
                      THEN ParseHttpSuccess(response)
                      ELSE IF ErrorStatus THEN ParseHttpError(response)
                      ELSE NoneValue

\* a 302 for which no Result is returned
C13_Witness ==
    /\ called = "parse_response"
    /\ response.status_code = 302
    /\ response.body.t = "obj"
    /\ result = NoneValue

\* check_post_response was handed a Result and has got past its test
CheckedResult == checked.stage # "none" /\ result.kind = "Result"

\* C14: check_post_response returns the very Result it was given whenever it
\* returns; when the error of the Result is falsy it emits no log record, and
\* when the error is truthy it emits the debug record 'Failure in POST
\* operation: <reason>.' with the reason of the Result.
C14_ReturnsItsArgument ==
    /\ checked.stage = "returned" => checked.value = result
    /\ (CheckedResult /\ ~Truthy(result.error)) => checked.records = <<>>
    /\ (CheckedResult /\ Truthy(result.error)) => checked.records = << result.reason >>

\* an error Result that is logged and handed back
C14_Witness ==
    /\ checked.stage = "returned"
    /\ ~checked.raise_error
    /\ ~result.ok
    /\ Truthy(result.error)
    /\ checked.records = << JStr("error_details") >>
    /\ checked.value = result

\* C15: check_post_response raises the Exception 'Failure in POST operation.'
\* if and only if the error of the Result is truthy and raise_error is true,
\* and it has logged the failure when it raises; with raise_error false it
\* never raises.
C15_RaisesIffErrorAndOptIn ==
    /\ (CheckedResult /\ checked.stage = "raised")
          => /\ Truthy(result.error)
             /\ checked.raise_error
             /\ checked.exc = "Failure in POST operation."
             /\ checked.records = << result.reason >>
    /\ (CheckedResult /\ checked.stage = "returned")
          => ~(Truthy(result.error) /\ checked.raise_error)

\* the failure is logged and then raised
C15_Witness ==
    /\ CheckedResult
    /\ checked.stage = "raised"
    /\ checked.raise_error
    /\ checked.exc = "Failure in POST operation."
    /\ checked.records = << result.reason >>

-----------------------------------------------------------------------------
(* constants.py: keys of the template objects *)

TEMPLATE_NAME == "templateName"
TEMPLATE_ID == "templateId"
TEMPLATE_TYPE == "templateType"
GENERAL_TEMPLATES == "generalTemplates"
SUB_TEMPLATES == "subTemplates"
UID_RANGE == "featureTemplateUidRange"
POLICY_ID == "policyId"
POLICY_NAME == "policyName"
POLICY_DEFINITION == "policyDefinition"
FEATURE_KEYS == {"templateName", "templateDescription", "templateType",
                 "templateMinVersion", "deviceType", "factoryDefault",
                 "templateDefinition"}
POLICY_KEYS == {"policyName", "policyDescription", "policyDefinition"}
DEVICE_TEMPLATE_KEYS == {"templateName", "templateDescription", "deviceType",
                         "configType", "factoryDefault", "policyId",
                         "featureTemplateUidRange", "generalTemplates"}
FEATURE_PATH == "/template/feature/"
DEVICE_PATH == "/template/device/"
DEVICE_FEATURE_PATH == "/template/device/feature/"
VEDGE_POLICY_PATH == "/template/policy/vedge"

\* a payload that keeps every key of the source
Project_All(d, keys) == d
\* {k: v for k, v in d.items() if k in keys}
Project(d, keys) == [k \in (DOMAIN d) \cap keys |-> d[k]]

-----------------------------------------------------------------------------
(* The input of the importer *)

\* a device template without policyId (device_template.get(POLICY_ID) is None)
NoPolicy == 0
\* the False that _check_policy returns when no policy has the name
PyFalse == 0 - 1

\* the old IDs of the export: feature 1 and feature 2
FeatureNameOf(id) == IF id = 1 THEN "fA" ELSE "fB"
FeatureEntry(id) ==
    [id |-> id,
     entry |-> [templateName |-> FeatureNameOf(id), templateType |-> "system",
                templateId |-> id]]
\* '<templateName>_features': no bundle, feature 1 alone, features 1 and 2
FeatureBundles == { <<>>, <<FeatureEntry(1)>>, <<FeatureEntry(1), FeatureEntry(2)>> }

PolicyEntry ==
    [id |-> 1,
     entry |-> [policyName |-> "pA", policyDefinition |-> "rules", policyId |-> 1]]
\* '<templateName>_policy': no bundle, or the bundle that holds policy 1
PolicyBundles == { <<>>, <<PolicyEntry>> }

Ref(id, subs) == [templateId |-> id, subTemplates |-> subs]
Leaf(id) == [templateId |-> id]
\* generalTemplates and featureTemplateUidRange of a device template: a flat
\* reference, or a reference with a sub-reference, a sub-sub-reference and a
\* UID-range entry, in which only the place at holds old ID 2
RefShapes == {"flat", "none", "top", "sub", "subsub", "uid"}
IdAt(shape, at) == IF shape = at THEN 2 ELSE 1
GeneralTemplatesOf(shape) ==
    IF shape = "flat" THEN << [templateId |-> 1] >>
    ELSE << Ref(IdAt(shape, "top"),
                << Ref(IdAt(shape, "sub"), << Leaf(IdAt(shape, "subsub")) >>) >>) >>
UidRangeOf(shape) == << Leaf(IdAt(shape, "uid")) >>

TemplateNameOf(i) == <<"T1", "T2", "T3", "T4">>[i]

\* the keys every exported device template has; templateId is the export's
\* own ID of the device template
DeviceTemplateBase(i, shape) ==
    [templateName |-> TemplateNameOf(i), templateId |-> 10 * i, configType |-> "template",
     generalTemplates |-> GeneralTemplatesOf(shape)]

\* d with the key added
WithKey(d, key, value) == [k \in (DOMAIN d) \cup {key} |-> IF k = key THEN value ELSE d[k]]

DeviceTemplate(i, shape, policy) ==
    LET base == DeviceTemplateBase(i, shape)
        ranged == IF shape = "flat" THEN base
                  ELSE WithKey(base, UID_RANGE, UidRangeOf(shape))
    IN  IF policy = NoPolicy THEN ranged ELSE WithKey(ranged, POLICY_ID, policy)

\* what the export holds for one device template: the template, its feature
\* bundle and its policy bundle
Exported(i, shape, policy, features, policies) ==
    [template |-> DeviceTemplate(i, shape, policy), features |-> features,
     policy |-> policies]

\* the exports of the device template at place i of the batch
ExportsAt(i) ==
    { Exported(i, shape, NoPolicy, features, <<>>) :
          shape \in RefShapes, features \in FeatureBundles \ {<<>>} }
    \cup { Exported(i, "flat", NoPolicy, <<>>, <<>>) }
    \cup { Exported(i, "flat", policy, <<FeatureEntry(1)>>, policies) :
               policy \in {1, 2}, policies \in PolicyBundles }

\* the exports among them whose references all point to feature 1
PlainExportsAt(i) ==
    { e \in ExportsAt(i) : LET gts == e.template[GENERAL_TEMPLATES]
                           IN  gts = GeneralTemplatesOf("flat")
                               \/ (gts = GeneralTemplatesOf("none")
                                   /\ e.template[UID_RANGE] = UidRangeOf("none")) }

\* template_dict: 'device_template' and the bundles, by place in the batch
TemplateDictsOf(at) ==
    UNION { { e \in [1..n -> UNION {at[i] : i \in 1..n}] :
                \A i \in 1..n : e[i] \in at[i] } : n \in 1..MaxTemplates }
TemplateDicts == TemplateDictsOf([i \in 1..MaxTemplates |-> ExportsAt(i)])
PlainTemplateDicts == TemplateDictsOf([i \in 1..MaxTemplates |-> PlainExportsAt(i)])

-----------------------------------------------------------------------------
(* The target *)

\* the IDs the target gives to what it creates: none is an ID of the export
FirstFreshId == 101

InitialFeatures ==
    { <<>>,
      << [templateName |-> "fA", templateId |-> 1] >>,
      << [templateName |-> "fA", templateId |-> 2] >> }
InitialPolicies == { <<>>, << [policyName |-> "pA", policyId |-> 50] >> }
InitialDevices == { <<>>, << [templateName |-> "T1"] >> }
Targets ==
    [features : InitialFeatures, policies : InitialPolicies, devices : InitialDevices,
     nextId : {FirstFreshId}]

\* the status codes the target may answer with
ErrorAnswers == {400}
Answers == IF faults > 0 THEN {200} \cup ErrorAnswers ELSE {200}
ErrorBody == JObj([k \in {ERROR} |-> ErrorDetail("error_details", "error_message")])

\* the response of the target to a GET of a list
GetResponse(status, list) ==
    [status_code |-> status, method |-> "GET",
     body |-> IF status = 200 THEN JObj([k \in {DATA} |-> JList(list)]) ELSE ErrorBody]
\* the response of the target to a POST; created is the body of a success
PostResponse(status, created) ==
    [status_code |-> status, method |-> "POST",
     body |-> IF status = 200 THEN JObj(created) ELSE ErrorBody]

\* what the target holds after a POST it answered with status
CreateFeature(status, fd) ==
    IF status = 200
    THEN [target EXCEPT !.features = Append(@, [templateName |-> fd[TEMPLATE_NAME],
                                                  templateId |-> target.nextId]),
                        !.nextId = @ + 1]
    ELSE target
CreatePolicy(status, pd) ==
    IF status = 200
    THEN [target EXCEPT !.policies = Append(@, [policyName |-> pd[POLICY_NAME],
                                                  policyId |-> target.nextId]),
                        !.nextId = @ + 1]
    ELSE target
CreateDevice(status, payload) ==
    IF status = 200
    THEN [target EXCEPT !.devices = Append(@, payload), !.nextId = @ + 1]
    ELSE target

-----------------------------------------------------------------------------
(* Viptela.get, Viptela.post and check_post_response *)

\* viptela.py parses with its own copy of parse_response, which differs from
\* the one of utils.py only in catching ValueError, the base class of
\* JSONDecodeError
ApiGet(status, list) == ParseResponse(GetResponse(status, list))
ApiPost(status, created) == ParseResponse(PostResponse(status, created))

\* the exception that ends the call when the value of api_class.get/post is
\* used: the one the parser raised, or the AttributeError of None.data
ExcOf(res) == IF res.kind = "Raise" THEN res.exc ELSE "AttributeError"

\* 'for k in data': the entries of a list; a dict() has no keys to visit
Items(data) == IF data.t = "list" THEN data.items ELSE <<>>

-----------------------------------------------------------------------------
(* Viptela.get, Viptela.put, Viptela.post and Viptela.delete on their own *)

STANDARD_JSON_HEADER ==
    JObj(("Connection" :> JStr("keep-alive")) @@ ("Content-Type" :> JStr("application/json")))
\* the default of the timeout parameter
DefaultTimeout == 10

\* a keyword argument the caller leaves out, or gives with a value
Omitted == [given |-> FALSE]
Given(v) == [given |-> TRUE, v |-> v]
\* the value Python binds to the parameter
Bound(arg, default) == IF arg.given THEN arg.v ELSE default

Urls == {"https://vmanage:8443/dataservice/template/feature/", ""}
HeadersArgs == {Omitted, Given(JNull), Given(EmptyDict),
                Given(JObj([k \in {"Accept"} |-> JStr("text/plain")]))}
DataArgs == {Omitted, Given(JNull), Given(EmptyDict), Given(JStr("{\"key\": \"value\"}"))}
TimeoutArgs == {Omitted, Given(JNull), Given(JNum(0)), Given(JNum(30))}
CallArgs == [method : Methods, url : Urls, headers : HeadersArgs, data : DataArgs,
             timeout : TimeoutArgs]

\* 'if headers is None' with a test of emptiness in its place
HeadersOrDefault_Falsy(headers) ==
    IF ~Truthy(headers) THEN STANDARD_JSON_HEADER ELSE headers
\* 'if headers is None: headers = constants.STANDARD_JSON_HEADER'
HeadersOrDefault(headers) == IF headers = JNull THEN STANDARD_JSON_HEADER ELSE headers
\* 'if data is None: data = dict()'
DataOrDefault(data) == IF data = JNull THEN EmptyDict ELSE data

\* what the session answers to the call
SessionAnswers(method) ==
    [status_code : {200, 400, 302}, method : {method},
     body : {NotJson, EmptyDict, ErrorBody}]

InitCall ==
    /\ args \in CallArgs
    /\ sent = NotSent
    /\ checked = NotChecked
    /\ response = <<>>
    /\ called = "none"
    /\ result = Pending
    /\ EngineIdle

\* the keyword arguments of session.put, session.post and session.delete
WriteKwargs ==
    [method |-> args.method, url |-> args.url,
     headers |-> HeadersOrDefault(Bound(args.headers, JNull)),
     data |-> DataOrDefault(Bound(args.data, JNull)),
     timeout |-> Bound(args.timeout, JNum(DefaultTimeout))]

\* Viptela.get has no data parameter: a caller that gives one gets a TypeError
Get ==
    /\ called = "none"
    /\ args.method = "GET"
    /\ called' = "get"
    /\ IF args.data.given
       THEN /\ result' = Raise("TypeError")
            /\ UNCHANGED <<response, sent>>
       ELSE \E resp \in SessionAnswers("GET") :
              /\ sent' = [method |-> "GET", url |-> args.url,
                          headers |-> HeadersOrDefault(Bound(args.headers, JNull)),
                          timeout |-> Bound(args.timeout, JNum(DefaultTimeout))]
              /\ response' = resp
              /\ result' = ParseResponse(resp)
    /\ UNCHANGED <<engineVars, checked, args>>

Put ==
    /\ called = "none"
    /\ args.method = "PUT"
    /\ called' = "put"
    /\ \E resp \in SessionAnswers("PUT") :
         /\ sent' = WriteKwargs
         /\ response' = resp
         /\ result' = ParseResponse(resp)
    /\ UNCHANGED <<engineVars, checked, args>>

Post ==
    /\ called = "none"
    /\ args.method = "POST"
    /\ called' = "post"
    /\ \E resp \in SessionAnswers("POST") :
         /\ sent' = WriteKwargs
         /\ response' = resp
         /\ result' = ParseResponse(resp)
    /\ UNCHANGED <<engineVars, checked, args>>

Delete ==
    /\ called = "none"
    /\ args.method = "DELETE"
    /\ called' = "delete"
    /\ \E resp \in SessionAnswers("DELETE") :
         /\ sent' = WriteKwargs
         /\ response' = resp
         /\ result' = ParseResponse(resp)
    /\ UNCHANGED <<engineVars, checked, args>>

NextCall ==
    \/ Get
    \/ Put
    \/ Post
    \/ Delete

SpecCall == InitCall /\ [][NextCall]_vars

\* the argument is given and is not the None that stands for a missing one
GivenNotNone(arg) == arg.given /\ arg.v # JNull

\* C16: each of Viptela.get, put, post and delete passes to the session's
\* call the caller's url unchanged, the caller's headers, data and timeout
\* when given, and otherwise the defaults: headers {'Connection':
\* 'keep-alive', 'Content-Type': 'application/json'}, timeout 10, and (for
\* put, post and delete) data {}.
C16_HelpersPassArguments ==
    sent.method # "none"
        => /\ sent.method = args.method
           /\ sent.url = args.url
           /\ sent.headers =
                 IF GivenNotNone(args.headers) THEN args.headers.v
                 ELSE JObj([k \in {"Connection", "Content-Type"} |->
                              IF k = "Connection" THEN JStr("keep-alive")
                              ELSE JStr("application/json")])
           /\ sent.timeout = IF args.timeout.given THEN args.timeout.v ELSE JNum(10)
           /\ sent.method \in {"PUT", "POST", "DELETE"}
                 => sent.data = IF GivenNotNone(args.data) THEN args.data.v
                                ELSE JObj([k \in {} |-> JNull])

\* a delete with nothing but the url, and one with empty headers of its own
C16_Witness ==
    /\ sent.method = "DELETE"
    /\ args.url # ""
    /\ sent.url = args.url
    /\ ~args.data.given
    /\ ~args.timeout.given
    /\ args.headers = Given(EmptyDict)
    /\ sent.headers = EmptyDict
    /\ sent.data = EmptyDict
    /\ sent.timeout = JNum(10)

-----------------------------------------------------------------------------
(* import_provisioning_templates: helpers *)

Cur == template_dict[idx]
device_template == Cur.template
feature_data == Cur.features
policy_data == Cur.policy

\* d.get(key, default) and d.get(key)
GetOr(d, key, default) == IF key \in DOMAIN d THEN d[key] ELSE default
Falsy(id) == id = NoPolicy \/ id = PyFalse

\* the entry of an ordered bundle under old ID id
HasId(bundle, id) == \E j \in DOMAIN bundle : bundle[j].id = id
EntryOf(bundle, id) == bundle[CHOOSE j \in DOMAIN bundle : bundle[j].id = id].entry

Req(method, path, name) ==
    [run |-> run, idx |-> idx, method |-> method, path |-> path, name |-> name]

\* the request with the payload that json.dumps hands to the POST
Posted(req, payload) == WithKey(req, "payload", payload)

SetMax(S) == CHOOSE x \in S : \A y \in S : y <= x
SetMin(S) == CHOOSE x \in S : \A y \in S : x <= y

\* an existence check that never finds the name
FeatureMatches_Never(list, name) == {j \in DOMAIN list : FALSE}

\* a lookup that takes the ID of the first entry of the list, whatever its name
FeatureIdByName_First(list, name) == list[1][TEMPLATE_ID]

\* feature_template_id_map[template_name]: a later entry of the list
\* overwrites an earlier one of the same name
FeatureMatches(list, name) == {j \in DOMAIN list : list[j][TEMPLATE_NAME] = name}
FeatureIdByName(list, name) == list[SetMax(FeatureMatches(list, name))][TEMPLATE_ID]

\* an existence check of the device template that never finds the name
TemplateExists_Never(list, name) == FALSE
\* 'template_exists': a device template of the list has the name
TemplateExists(list, name) == \E j \in DOMAIN list : list[j][TEMPLATE_NAME] = name

\* a _check_policy that finds no policy, whatever the list holds
CheckPolicy_Never(list, policy_name) == PyFalse
\* _check_policy: the ID of the first policy of the name, or False
CheckPolicy(list, policy_name) ==
    LET hits == {j \in DOMAIN list : list[j][POLICY_NAME] = policy_name}
    IN  IF hits = {} THEN PyFalse ELSE list[SetMin(hits)][POLICY_ID]

\* every templateId the rewrite looks up in id_map
SubSubsOf(sub) == GetOr(sub, SUB_TEMPLATES, <<>>)
SubsOf(feature) == GetOr(feature, SUB_TEMPLATES, <<>>)
LookedUp(dt) ==
    LET gts == dt[GENERAL_TEMPLATES]
        uids == GetOr(dt, UID_RANGE, <<>>)
    IN  {gts[i][TEMPLATE_ID] : i \in DOMAIN gts}
        \cup UNION {{SubsOf(gts[i])[j][TEMPLATE_ID] : j \in DOMAIN SubsOf(gts[i])}
                     : i \in DOMAIN gts}
        \cup UNION {UNION {{SubSubsOf(SubsOf(gts[i])[j])[k][TEMPLATE_ID] :
                               k \in DOMAIN SubSubsOf(SubsOf(gts[i])[j])}
                            : j \in DOMAIN SubsOf(gts[i])} : i \in DOMAIN gts}
        \cup {uids[i][TEMPLATE_ID] : i \in DOMAIN uids}

\* the rewrite of one entry at each level
RewriteLeaf(template, map) == [template EXCEPT ![TEMPLATE_ID] = map[@]]
\* a rewrite that stops at the sub-references
RewriteSub_SkipInner(sub_temp, map) == [sub_temp EXCEPT ![TEMPLATE_ID] = map[@]]

RewriteSub(sub_temp, map) ==
    LET inner == IF SUB_TEMPLATES \in DOMAIN sub_temp
                 THEN [sub_temp EXCEPT ![SUB_TEMPLATES] =
                          [k \in DOMAIN @ |-> RewriteLeaf(@[k], map)]]
                 ELSE sub_temp
    IN  [inner EXCEPT ![TEMPLATE_ID] = map[@]]
RewriteFeature(feature, map) ==
    LET top == [feature EXCEPT ![TEMPLATE_ID] = map[@]]
    IN  IF SUB_TEMPLATES \in DOMAIN top
        THEN [top EXCEPT ![SUB_TEMPLATES] = [j \in DOMAIN @ |-> RewriteSub(@[j], map)]]
        ELSE top
\* the deep copy of the device template with every reference rewritten
Rewritten(dt, map) ==
    LET general == [dt EXCEPT ![GENERAL_TEMPLATES] =
                       [i \in DOMAIN @ |-> RewriteFeature(@[i], map)]]
    IN  IF UID_RANGE \in DOMAIN general
        THEN [general EXCEPT ![UID_RANGE] = [i \in DOMAIN @ |-> RewriteLeaf(@[i], map)]]
        ELSE general

\* a shallow copy, which shares the reference lists with the input
CopyShares_Shallow == {GENERAL_TEMPLATES, UID_RANGE}
\* the keys of the device template whose values the copy shares with the
\* input: copy.deepcopy shares none
CopyShares == {}
\* the input device template after the writes to the copy: a write reaches
\* the input only through a value the two share
WrittenThrough(dt, map) ==
    [k \in DOMAIN dt |-> IF k \in CopyShares THEN Rewritten(dt, map)[k] ELSE dt[k]]

\* a mapping that is carried over from the previous device template
NewIdMap_Leaked == id_map
\* 'id_map = {}' at the head of the loop body
NewIdMap == <<>>

-----------------------------------------------------------------------------
(* import_provisioning_templates: the steps of one call *)

ParseIdle ==
    /\ response = <<>>
    /\ called = "idle"
    /\ result = Pending

InitEngine ==
    /\ target \in Targets
    /\ run = 1
    /\ pc = "begin"
    /\ idx = 1
    /\ fi = 0
    /\ id_map = <<>>
    /\ new_device_template = <<>>
    /\ raised = ""
    /\ requests = <<>>
    /\ log = <<>>
    /\ snapshot = <<>>
    /\ ParseIdle
    /\ CallIdle

\* a lookup error that is swallowed: the call returns as if it had ended
Fail_Swallowed(exc) == pc' = "done" /\ raised' = ""
\* an exception leaves the call
Fail(exc) == pc' = "raised" /\ raised' = exc
\* a loop that ends at its first continue
Continue_Stop == idx' = idx /\ pc' = "done"
\* the next device template of the batch, or the return
Continue ==
    IF idx < Len(template_dict) THEN idx' = idx + 1 /\ pc' = "begin"
    ELSE idx' = idx /\ pc' = "done"
\* an inner loop that ends after its first entry
NextFeature_Early == fi' = fi /\ pc' = "rewrite"
\* the next feature entry of the bundle, or the end of the inner loop
NextFeature ==
    IF fi < Len(feature_data) THEN fi' = fi + 1 /\ pc' = "feature_get"
    ELSE fi' = fi /\ pc' = "rewrite"
\* the target has answered one request with status
Answered(status) == faults' = IF status = 200 THEN faults ELSE faults - 1

\* the head of the loop over the device templates
Begin ==
    /\ pc = "begin"
    /\ id_map' = NewIdMap
    /\ IF feature_data = <<>>
       THEN Continue /\ fi' = fi
       ELSE fi' = 1 /\ pc' = "feature_get" /\ idx' = idx
    /\ UNCHANGED <<template_dict, target, faults, run, new_device_template, raised,
                   requests, log, snapshot, parseVars, callVars>>

\* the list of feature templates is read and searched for the entry's name
FeatureGet ==
    /\ pc = "feature_get"
    /\ \E status \in Answers :
         LET fd == Project(feature_data[fi].entry, FEATURE_KEYS)
             res == ApiGet(status, target.features)
         IN  /\ Answered(status)
             /\ requests' = Append(requests, Req("GET", FEATURE_PATH, ""))
             /\ IF res.kind # "Result"
                THEN Fail(ExcOf(res)) /\ UNCHANGED <<fi, id_map>>
                ELSE IF TEMPLATE_NAME \notin DOMAIN fd
                THEN Fail("KeyError") /\ UNCHANGED <<fi, id_map>>
                ELSE IF FeatureMatches(Items(res.data), fd[TEMPLATE_NAME]) # {}
                THEN /\ id_map' = (feature_data[fi].id :>
                                     FeatureIdByName(Items(res.data), fd[TEMPLATE_NAME]))
                                  @@ id_map
                     /\ NextFeature
                     /\ UNCHANGED raised
                ELSE /\ pc' = "feature_post"
                     /\ UNCHANGED <<fi, id_map, raised>>
    /\ UNCHANGED <<template_dict, target, run, idx, new_device_template, log, snapshot,
                   parseVars, callVars>>

\* the feature template is created and its new ID is read from the answer
FeaturePost ==
    /\ pc = "feature_post"
    /\ \E status \in Answers :
         LET fd == Project(feature_data[fi].entry, FEATURE_KEYS)
             res == ApiPost(status, [k \in {TEMPLATE_ID} |-> target.nextId])
         IN  /\ Answered(status)
             /\ requests' = Append(requests,
                                   Posted(Req("POST", FEATURE_PATH, fd[TEMPLATE_NAME]), fd))
             /\ target' = CreateFeature(status, fd)
             /\ IF res.kind # "Result"
                THEN Fail(ExcOf(res)) /\ UNCHANGED <<fi, id_map, log>>
                ELSE /\ log' = log \o CheckLog(res)
                     /\ IF CheckRaises(res, FALSE)
                        THEN Fail("Exception") /\ UNCHANGED <<fi, id_map>>
                        ELSE IF ~CanSubscript(res.data, TEMPLATE_ID)
                        THEN Fail(SubscriptError(res.data)) /\ UNCHANGED <<fi, id_map>>
                        ELSE /\ id_map' = (feature_data[fi].id :> res.data.f[TEMPLATE_ID])
                                          @@ id_map
                             /\ NextFeature
                             /\ UNCHANGED raised
    /\ UNCHANGED <<template_dict, run, idx, new_device_template, snapshot, parseVars, callVars>>

\* the device template is copied and the references of the copy are rewritten
Rewrite ==
    /\ pc = "rewrite"
    /\ IF ~(LookedUp(device_template) \subseteq DOMAIN id_map)
       THEN Fail("KeyError") /\ UNCHANGED <<new_device_template, template_dict>>
       ELSE /\ new_device_template' = Rewritten(device_template, id_map)
            /\ template_dict' = [template_dict EXCEPT
                                    ![idx].template = WrittenThrough(@, id_map)]
            /\ pc' = IF Falsy(GetOr(device_template, POLICY_ID, NoPolicy))
                     THEN "device_get" ELSE "policy_lookup"
            /\ UNCHANGED raised
    /\ UNCHANGED <<target, faults, run, idx, fi, id_map, requests, log,
                   snapshot, parseVars, callVars>>

\* the policy of the device template is looked up in the policy bundle
PolicyLookup ==
    /\ pc = "policy_lookup"
    /\ IF ~HasId(policy_data, device_template[POLICY_ID])
       THEN Fail("KeyError")
       ELSE pc' = "policy_get" /\ UNCHANGED raised
    /\ UNCHANGED <<template_dict, target, faults, run, idx, fi, id_map,
                   new_device_template, requests, log, snapshot, parseVars, callVars>>

pd == EntryOf(policy_data, device_template[POLICY_ID])

\* _check_policy: the policy list is read and searched for the policy's name
PolicyGet ==
    /\ pc = "policy_get"
    /\ \E status \in Answers :
         LET res == ApiGet(status, target.policies)
         IN  /\ Answered(status)
             /\ requests' = Append(requests, Req("GET", VEDGE_POLICY_PATH, ""))
             /\ IF res.kind # "Result"
                THEN Fail(ExcOf(res)) /\ UNCHANGED new_device_template
                ELSE IF Falsy(CheckPolicy(Items(res.data), pd[POLICY_NAME]))
                THEN /\ pc' = "policy_post"
                     /\ UNCHANGED <<new_device_template, raised>>
                ELSE /\ new_device_template' =
                            WithKey(new_device_template, POLICY_ID,
                                    CheckPolicy(Items(res.data), pd[POLICY_NAME]))
                     /\ pc' = "device_get"
                     /\ UNCHANGED raised
    /\ UNCHANGED <<template_dict, target, run, idx, fi, id_map, log, snapshot, parseVars, callVars>>

\* the policy is created
PolicyPost ==
    /\ pc = "policy_post"
    /\ \E status \in Answers :
         LET payload == Project(pd, POLICY_KEYS)
             res == ApiPost(status, [k \in {POLICY_ID} |-> target.nextId])
         IN  /\ Answered(status)
             /\ requests' = Append(requests,
                                   Posted(Req("POST", VEDGE_POLICY_PATH,
                                              payload[POLICY_NAME]), payload))
             /\ target' = CreatePolicy(status, payload)
             /\ IF res.kind # "Result"
                THEN Fail(ExcOf(res)) /\ UNCHANGED log
                ELSE /\ log' = log \o CheckLog(res)
                     /\ IF CheckRaises(res, FALSE)
                        THEN Fail("Exception")
                        ELSE pc' = "policy_recheck" /\ UNCHANGED raised
    /\ UNCHANGED <<template_dict, run, idx, fi, id_map, new_device_template, snapshot,
                   parseVars, callVars>>

\* _check_policy again: the ID of the policy just created, or False
PolicyRecheck ==
    /\ pc = "policy_recheck"
    /\ \E status \in Answers :
         LET res == ApiGet(status, target.policies)
         IN  /\ Answered(status)
             /\ requests' = Append(requests, Req("GET", VEDGE_POLICY_PATH, ""))
             /\ IF res.kind # "Result"
                THEN Fail(ExcOf(res)) /\ UNCHANGED new_device_template
                ELSE /\ new_device_template' =
                            WithKey(new_device_template, POLICY_ID,
                                    CheckPolicy(Items(res.data),
                                                Project(pd, POLICY_KEYS)[POLICY_NAME]))
                     /\ pc' = "device_get"
                     /\ UNCHANGED raised
    /\ UNCHANGED <<template_dict, target, run, idx, fi, id_map, log, snapshot, parseVars, callVars>>

\* the copy is cut down to the device-template keys and the list of device
\* templates is read and searched for its name
DeviceGet ==
    /\ pc = "device_get"
    /\ \E status \in Answers :
         LET payload == Project(new_device_template, DEVICE_TEMPLATE_KEYS)
             res == ApiGet(status, target.devices)
         IN  /\ Answered(status)
             /\ requests' = Append(requests, Req("GET", DEVICE_PATH, ""))
             /\ new_device_template' = payload
             /\ IF res.kind # "Result"
                THEN Fail(ExcOf(res)) /\ UNCHANGED idx
                ELSE IF TemplateExists(Items(res.data), payload[TEMPLATE_NAME])
                THEN Continue /\ UNCHANGED raised
                ELSE pc' = "device_post" /\ UNCHANGED <<idx, raised>>
    /\ UNCHANGED <<template_dict, target, run, fi, id_map, log, snapshot, parseVars, callVars>>

\* the device template is created
DevicePost ==
    /\ pc = "device_post"
    /\ \E status \in Answers :
         LET res == ApiPost(status, [k \in {TEMPLATE_ID} |-> target.nextId])
         IN  /\ Answered(status)
             /\ requests' = Append(requests,
                                   Posted(Req("POST", DEVICE_FEATURE_PATH,
                                              new_device_template[TEMPLATE_NAME]),
                                          new_device_template))
             /\ target' = CreateDevice(status, new_device_template)
             /\ IF res.kind # "Result"
                THEN Fail(ExcOf(res)) /\ UNCHANGED <<idx, log>>
                ELSE /\ log' = log \o CheckLog(res)
                     /\ IF CheckRaises(res, FALSE)
                        THEN Fail("Exception") /\ UNCHANGED idx
                        ELSE Continue /\ UNCHANGED raised
    /\ UNCHANGED <<template_dict, run, fi, id_map, new_device_template, snapshot,
                   parseVars, callVars>>

\* the importer is called again with the same input
SecondCall ==
    /\ pc \in {"done", "raised"}
    /\ run = 1
    /\ run' = 2
    /\ pc' = "begin"
    /\ idx' = 1
    /\ fi' = 0
    /\ id_map' = <<>>
    /\ new_device_template' = <<>>
    /\ raised' = ""
    /\ snapshot' = target
    /\ UNCHANGED <<template_dict, target, faults, requests, log, parseVars, callVars>>

Next ==
    \/ Begin
    \/ FeatureGet
    \/ FeaturePost
    \/ Rewrite
    \/ PolicyLookup
    \/ PolicyGet
    \/ PolicyPost
    \/ PolicyRecheck
    \/ DeviceGet
    \/ DevicePost
    \/ SecondCall

\* every request is answered with status 200
Init == InitEngine /\ faults = 0 /\ template_dict \in TemplateDicts
Spec == Init /\ [][Next]_vars

\* up to MaxFaults requests are answered with an error status; the references
\* of the device templates all point to feature 1
InitFaulty ==
    InitEngine /\ faults \in 1..MaxFaults /\ template_dict \in PlainTemplateDicts
SpecFaulty == InitFaulty /\ [][Next]_vars

-----------------------------------------------------------------------------
(* Properties of the importer *)

PostsOf(r) == {i \in DOMAIN requests : requests[i].run = r /\ requests[i].method = "POST"}
PostedTo(r, path) == \E i \in PostsOf(r) : requests[i].path = path

\* C1: with every request answered with status 200, the second call of the
\* importer with the same input issues no create POST and leaves on the
\* target exactly what the first call left.
C1_SecondCallCreatesNothing ==
    run = 2 => (PostsOf(2) = {} /\ target = snapshot)

\* both calls ran to their end, the first created a feature template, a
\* policy and a device template, the second only read
C1_Witness ==
    /\ run = 2
    /\ pc = "done"
    /\ PostedTo(1, FEATURE_PATH)
    /\ PostedTo(1, VEDGE_POLICY_PATH)
    /\ PostedTo(1, DEVICE_FEATURE_PATH)
    /\ \E i \in DOMAIN requests : requests[i].run = 2 /\ requests[i].path = DEVICE_PATH
    /\ target = snapshot

\* the states in which the copy of the current device template is rewritten
\* and id_map is still the mapping it was rewritten with
Rewrote == pc \in {"policy_lookup", "policy_get", "policy_post", "policy_recheck",
                   "device_get", "device_post"}

\* <<original templateId, templateId of the copy>> at every place the
\* rewrite covers: generalTemplates, their subTemplates, the subTemplates
\* inside those, and featureTemplateUidRange
IdPairs(old, new) ==
    LET og == old[GENERAL_TEMPLATES]
        ng == new[GENERAL_TEMPLATES]
        ou == GetOr(old, UID_RANGE, <<>>)
        nu == GetOr(new, UID_RANGE, <<>>)
    IN  { <<og[i][TEMPLATE_ID], ng[i][TEMPLATE_ID]>> : i \in DOMAIN og }
        \cup UNION { { <<SubsOf(og[i])[j][TEMPLATE_ID], SubsOf(ng[i])[j][TEMPLATE_ID]>> :
                         j \in DOMAIN SubsOf(og[i]) } : i \in DOMAIN og }
        \cup UNION { UNION { { <<SubSubsOf(SubsOf(og[i])[j])[k][TEMPLATE_ID],
                                 SubSubsOf(SubsOf(ng[i])[j])[k][TEMPLATE_ID]>> :
                                 k \in DOMAIN SubSubsOf(SubsOf(og[i])[j]) }
                             : j \in DOMAIN SubsOf(og[i]) } : i \in DOMAIN og }
        \cup { <<ou[i][TEMPLATE_ID], nu[i][TEMPLATE_ID]>> : i \in DOMAIN ou }

\* C2 as claimed: every templateId of the rewritten copy equals
\* id_map[original templateId], and no templateId is left holding its
\* pre-mapping value.
C2_NoOriginalIdRemains ==
    Rewrote => \A p \in IdPairs(device_template, new_device_template) :
                   p[2] = id_map[p[1]] /\ p[2] # p[1]

\* C2 as amended: every templateId of the rewritten copy, at every level and
\* in featureTemplateUidRange, equals id_map[original templateId]; a field
\* holds its pre-mapping value only where id_map maps that ID to itself.
C2_EveryIdMapped ==
    Rewrote => \A p \in IdPairs(device_template, new_device_template) :
                   /\ p[1] \in DOMAIN id_map
                   /\ p[2] = id_map[p[1]]
                   /\ (p[2] = p[1] => id_map[p[1]] = p[1])

\* a copy with a sub-sub-reference to old ID 2, which the target created anew
C2_Witness ==
    /\ pc = "device_get"
    /\ Len(SubsOf(device_template[GENERAL_TEMPLATES][1])) = 1
    /\ SubSubsOf(SubsOf(device_template[GENERAL_TEMPLATES][1])[1])[1][TEMPLATE_ID] = 2
    /\ id_map[2] >= FirstFreshId
    /\ SubSubsOf(SubsOf(new_device_template[GENERAL_TEMPLATES][1])[1])[1][TEMPLATE_ID]
           = id_map[2]
    /\ new_device_template[UID_RANGE][1][TEMPLATE_ID] = id_map[1]

\* the policyId of the current device template is not in its policy bundle
PolicyMissing ==
    /\ ~Falsy(GetOr(device_template, POLICY_ID, NoPolicy))
    /\ ~HasId(policy_data, device_template[POLICY_ID])

\* C3: when the policyId of a device template is not a key of its policy
\* bundle (or the bundle is absent), the importer does not fail: it goes on
\* to the existence check of the device template.
C3_MissingPolicyProceeds ==
    [][(pc = "policy_lookup" /\ PolicyMissing) => pc' = "device_get"]_vars

CreatePcs == {"feature_post", "policy_post", "device_post"}

\* C4: when a create POST (feature template, policy or device template) is
\* answered with an error, the importer raises nothing and goes on.
C4_PostErrorNeverRaises ==
    [][(pc \in CreatePcs /\ faults' < faults) => pc' # "raised"]_vars

\* the old IDs that are keys of the feature bundle of the current device
\* template
BundleIds == {feature_data[j].id : j \in DOMAIN feature_data}
\* a reference of the current device template points outside its own bundle
RefersOutside == ~(LookedUp(device_template) \subseteq BundleIds)

\* C17: the ID mapping is empty at the start of each device template's
\* iteration: an old feature ID resolves only if it is a key of the template's
\* own feature bundle, and an old ID that is only in the bundle of an earlier
\* device template gives a lookup failure.
C17_IdMapDoesNotLeak ==
    /\ (pc = "feature_get" /\ fi = 1) => id_map = <<>>
    /\ pc \notin {"idle", "begin"} => DOMAIN id_map \subseteq BundleIds
    /\ Rewrote => ~RefersOutside
    /\ (pc \in {"done", "raised"} /\ feature_data # <<>> /\ RefersOutside)
          => (pc = "raised" /\ raised = "KeyError")

\* the second device template refers to old ID 2, which only the bundle of
\* the first holds
C17_Witness ==
    /\ pc = "raised"
    /\ raised = "KeyError"
    /\ idx = 2
    /\ HasId(template_dict[1].features, 2)
    /\ \E i \in DOMAIN requests :
          requests[i].run = run /\ requests[i].idx = 1 /\ requests[i].path = DEVICE_PATH
    /\ 2 \in LookedUp(device_template)
    /\ BundleIds = {1}
    /\ DOMAIN id_map = {1}

\* C18: the importer leaves its input template_dict unchanged: every
\* templateId and policyId of the input device templates and every feature
\* and policy bundle entry holds the value it had before the call.
C18_InputUnchanged == [][template_dict' = template_dict]_vars

\* the copy holds a new feature ID and a new policy ID, the input the old ones
C18_Witness ==
    /\ pc = "device_get"
    /\ POLICY_ID \in DOMAIN device_template
    /\ device_template[POLICY_ID] = 1
    /\ new_device_template[POLICY_ID] >= FirstFreshId
    /\ device_template[GENERAL_TEMPLATES][1][TEMPLATE_ID] = 1
    /\ new_device_template[GENERAL_TEMPLATES][1][TEMPLATE_ID] >= FirstFreshId
    /\ template_dict \in TemplateDicts

\* the device template at place i has no feature bundle
Skipped(i) == template_dict[i].features = <<>>

\* C19: for a device template whose feature bundle is missing from the
\* input, the importer issues no request at all, leaves the target unchanged,
\* raises nothing and continues with the next device template.
C19_NoBundleNoRequest ==
    /\ [](\A i \in DOMAIN requests : ~Skipped(requests[i].idx))
    /\ [][(pc = "begin" /\ feature_data = <<>>)
            => /\ requests' = requests
               /\ target' = target
               /\ raised' = ""
               /\ IF idx < Len(template_dict)
                  THEN pc' = "begin" /\ idx' = idx + 1
                  ELSE pc' = "done"]_vars

\* the first device template was skipped, the second was imported
C19_Witness ==
    /\ pc = "done"
    /\ Len(template_dict) = 2
    /\ Skipped(1)
    /\ PostedTo(1, DEVICE_FEATURE_PATH)
    /\ \A i \in DOMAIN requests : requests[i].idx = 2
    /\ \A j \in DOMAIN target.devices : target.devices[j][TEMPLATE_NAME] # "T1"

\* the target lists a feature template of the name, and the ID it lists
OnTarget(t, name) == \E j \in DOMAIN t.features : t.features[j][TEMPLATE_NAME] = name
IdOnTarget(t, name) ==
    t.features[CHOOSE j \in DOMAIN t.features :
                   t.features[j][TEMPLATE_NAME] = name][TEMPLATE_ID]
\* the feature entry the inner loop stands at
EntryName == feature_data[fi].entry[TEMPLATE_NAME]
EntryId == feature_data[fi].id
LoopGoesOn == pc' \in {"feature_get", "rewrite"}

\* C20: for each feature entry of a bundle: if the target's feature-template
\* list already holds a template of the same templateName, no POST is issued
\* and the mapping records old ID -> that template's ID; otherwise exactly
\* one POST of the feature is issued and the mapping records old ID -> the
\* templateId returned by that POST.
C20_ReuseOrCreateFeature ==
    [][/\ (pc = "feature_get" /\ OnTarget(target, EntryName))
            => /\ LoopGoesOn
               /\ requests'[Len(requests')].method = "GET"
               /\ target' = target
               /\ id_map'[EntryId] = IdOnTarget(target, EntryName)
       /\ (pc = "feature_get" /\ ~OnTarget(target, EntryName))
            => pc' = "feature_post" /\ id_map' = id_map
       /\ pc = "feature_post"
            => /\ LoopGoesOn
               /\ Len(requests') = Len(requests) + 1
               /\ requests'[Len(requests')].method = "POST"
               /\ requests'[Len(requests')].path = FEATURE_PATH
               /\ requests'[Len(requests')].name = EntryName
               /\ Len(target'.features) = Len(target.features) + 1
               /\ id_map'[EntryId] = IdOnTarget(target', EntryName)
               /\ id_map'[EntryId] = target.nextId]_vars

\* feature 1 was found on the target and reused, feature 2 was created
C20_Witness ==
    /\ pc = "rewrite"
    /\ run = 1
    /\ DOMAIN id_map = {1, 2}
    /\ id_map[1] < FirstFreshId
    /\ id_map[2] >= FirstFreshId
    /\ Cardinality(PostsOf(1)) = 1
    /\ \E i \in PostsOf(1) : requests[i].name = "fB"
    /\ IdOnTarget(target, "fB") = id_map[2]

\* the target lists a device template of the name
DeviceOnTarget(t, name) == \E j \in DOMAIN t.devices : t.devices[j][TEMPLATE_NAME] = name
\* the requests of the iteration of run r over the device template at place k
RequestsOf(r, k) == {i \in DOMAIN requests : requests[i].run = r /\ requests[i].idx = k}
DevicePostsOf(r, k) ==
    {i \in RequestsOf(r, k) :
        requests[i].method = "POST" /\ requests[i].path = DEVICE_FEATURE_PATH}
DeviceChecksOf(r, k) ==
    {i \in RequestsOf(r, k) : requests[i].method = "GET" /\ requests[i].path = DEVICE_PATH}
\* the existence check with request number i has been acted upon
ActedUpon(i) == ~(i = Len(requests) /\ pc = "device_post")
\* requests i and j belong to the same device template of the same call
SameTemplate(i, j) ==
    requests[i].run = requests[j].run /\ requests[i].idx = requests[j].idx
IsDeviceCheck(i) == requests[i].method = "GET" /\ requests[i].path = DEVICE_PATH
IsDevicePost(i) == requests[i].method = "POST" /\ requests[i].path = DEVICE_FEATURE_PATH

\* C21: the importer POSTs a device template if and only if, at the time of
\* the check, the target's device-template list has no template of the same
\* templateName; at most one device-template POST is issued per input device
\* template.
C21_DevicePostIffAbsent ==
    /\ pc = "device_post" => ~DeviceOnTarget(target, device_template[TEMPLATE_NAME])
    /\ \A i \in DOMAIN requests :
          /\ IsDevicePost(i)
                => /\ i > 1
                   /\ IsDeviceCheck(i - 1)
                   /\ SameTemplate(i - 1, i)
                   /\ \A j \in DOMAIN requests :
                         (IsDevicePost(j) /\ SameTemplate(i, j)) => i = j
          /\ (IsDeviceCheck(i) /\ ActedUpon(i))
                => DeviceOnTarget(target, TemplateNameOf(requests[i].idx))

\* T1 was on the target and was not POSTed, T2 was not and was POSTed
C21_Witness ==
    /\ pc = "done"
    /\ run = 1
    /\ Len(template_dict) = 2
    /\ DeviceChecksOf(1, 1) # {}
    /\ DevicePostsOf(1, 1) = {}
    /\ DeviceChecksOf(1, 2) # {}
    /\ Cardinality(DevicePostsOf(1, 2)) = 1
    /\ Len(target.devices) = 2

\* the target lists a policy of the name, and the ID it lists
PolicyOnTarget(t, name) == \E j \in DOMAIN t.policies : t.policies[j][POLICY_NAME] = name
PolicyIdOnTarget(t, name) ==
    t.policies[CHOOSE j \in DOMAIN t.policies :
                   t.policies[j][POLICY_NAME] = name][POLICY_ID]
\* the device template at place k has a policyId, and its bundle holds it
HasPolicy(k) == POLICY_ID \in DOMAIN template_dict[k].template
PolicyInBundle(k) ==
    HasPolicy(k) /\ HasId(template_dict[k].policy, template_dict[k].template[POLICY_ID])
PolicyNameOf(k) ==
    EntryOf(template_dict[k].policy, template_dict[k].template[POLICY_ID])[POLICY_NAME]
PolicyRequestsOf(r, k) == {i \in RequestsOf(r, k) : requests[i].path = VEDGE_POLICY_PATH}
PolicyPostsOf(r, k) == {i \in PolicyRequestsOf(r, k) : requests[i].method = "POST"}
IsPolicyRead(i) == requests[i].method = "GET" /\ requests[i].path = VEDGE_POLICY_PATH
IsPolicyPost(i) == requests[i].method = "POST" /\ requests[i].path = VEDGE_POLICY_PATH

\* C22: for a device template with a policyId present in its policy bundle:
\* if a policy of the same policyName exists on the target no policy POST is
\* issued, otherwise exactly one policy POST is issued and the policy list is
\* read again; in both cases the policyId of the new device template is the
\* policyId the target lists for that policyName. A device template with no
\* policyId causes no policy GET or POST.
C22_PolicyReuseOrCreate ==
    /\ pc = "policy_post" => ~PolicyOnTarget(target, PolicyNameOf(idx))
    /\ \A i \in DOMAIN requests :
          /\ requests[i].path = VEDGE_POLICY_PATH => HasPolicy(requests[i].idx)
          /\ IsPolicyPost(i)
                => /\ i > 1
                   /\ IsPolicyRead(i - 1)
                   /\ SameTemplate(i - 1, i)
                   /\ i < Len(requests)
                         => (IsPolicyRead(i + 1) /\ SameTemplate(i, i + 1))
                   /\ \A j \in DOMAIN requests :
                         (IsPolicyPost(j) /\ SameTemplate(i, j)) => i = j
    /\ (pc \in {"device_get", "device_post"} /\ PolicyInBundle(idx))
          => /\ PolicyOnTarget(target, PolicyNameOf(idx))
             /\ new_device_template[POLICY_ID] = PolicyIdOnTarget(target, PolicyNameOf(idx))

\* the policy was not on the target: it was POSTed once, the list was read
\* again and the new device template holds the ID the target gave it
C22_Witness ==
    /\ pc = "device_get"
    /\ PolicyInBundle(idx)
    /\ Cardinality(PolicyPostsOf(run, idx)) = 1
    /\ Cardinality(PolicyRequestsOf(run, idx)) = 3
    /\ new_device_template[POLICY_ID] >= FirstFreshId
    /\ new_device_template[POLICY_ID] = PolicyIdOnTarget(target, "pA")

Phase(i) ==
    CASE requests[i].path = FEATURE_PATH -> 1
      [] requests[i].path = VEDGE_POLICY_PATH -> 2
      [] requests[i].path = DEVICE_PATH -> 3
      [] requests[i].path = DEVICE_FEATURE_PATH -> 4
FeatureReadsOf(r, k) ==
    {i \in RequestsOf(r, k) : requests[i].path = FEATURE_PATH /\ requests[i].method = "GET"}
PastFeatures ==
    pc \in {"rewrite", "policy_lookup", "policy_get", "policy_post", "policy_recheck",
            "device_get", "device_post"}

\* C26: within one device template the requests are strictly ordered: every
\* feature-template GET/POST of the bundle completes before the reference
\* rewrite, the policy GET/POST come after the feature requests, and the
\* device-template POST is last; no request for device template k+1 is issued
\* before the last request for device template k.
C26_RequestsInOrder ==
    /\ \A i \in DOMAIN requests :
          i < Len(requests)
             => /\ requests[i].run <= requests[i + 1].run
                /\ requests[i].run = requests[i + 1].run
                      => requests[i].idx <= requests[i + 1].idx
                /\ SameTemplate(i, i + 1)
                      => (Phase(i) <= Phase(i + 1) /\ Phase(i) < 4)
    /\ PastFeatures
          => /\ DOMAIN id_map = BundleIds
             /\ Cardinality(FeatureReadsOf(run, idx)) = Len(feature_data)
             /\ \A i \in RequestsOf(run, idx) :
                   (Phase(i) = 1 /\ requests[i].method = "POST")
                       => OnTarget(target, requests[i].name)
    /\ pc = "rewrite" => \A i \in RequestsOf(run, idx) : Phase(i) = 1

\* a batch of two device templates has been imported; the first one caused
\* requests of all four kinds (a feature POST, a policy POST between two
\* policy reads, the existence check and the device-template POST), the
\* second one ended with its device-template POST
C26_Witness ==
    /\ pc = "done"
    /\ run = 1
    /\ Len(template_dict) = 2
    /\ {Phase(i) : i \in RequestsOf(1, 1)} = {1, 2, 3, 4}
    /\ PolicyPostsOf(1, 1) # {}
    /\ \E i \in RequestsOf(1, 1) : Phase(i) = 1 /\ requests[i].method = "POST"
    /\ Cardinality(FeatureReadsOf(1, 2)) = 2
    /\ requests[Len(requests)].path = DEVICE_FEATURE_PATH

\* the allowlist of the kind of a POST, and the source object of its payload
AllowedKeys(i) ==
    CASE requests[i].path = FEATURE_PATH -> FEATURE_KEYS
      [] requests[i].path = VEDGE_POLICY_PATH -> POLICY_KEYS
      [] requests[i].path = DEVICE_FEATURE_PATH -> DEVICE_TEMPLATE_KEYS
SourceOf(i) ==
    LET e == template_dict[requests[i].idx]
    IN  CASE requests[i].path = FEATURE_PATH ->
               e.features[CHOOSE j \in DOMAIN e.features :
                              e.features[j].entry[TEMPLATE_NAME] = requests[i].name].entry
          [] requests[i].path = VEDGE_POLICY_PATH -> EntryOf(e.policy, e.template[POLICY_ID])
          [] requests[i].path = DEVICE_FEATURE_PATH -> e.template
\* the keys whose values the importer rewrites
RewrittenKeys == {GENERAL_TEMPLATES, UID_RANGE, POLICY_ID}
AllPosts == {i \in DOMAIN requests : requests[i].method = "POST"}

\* C27: every payload the importer POSTs contains only keys from the allowlist
\* of its kind (FEATURE_KEYS, POLICY_KEYS, DEVICE_TEMPLATE_KEYS): every
\* allowlisted key present in the source object is kept with its (rewritten
\* for IDs) value and every other key is dropped.
C27_PayloadIsAllowlisted ==
    \A i \in AllPosts :
        LET payload == requests[i].payload
            source == SourceOf(i)
        IN  /\ DOMAIN payload \subseteq AllowedKeys(i)
            /\ DOMAIN payload = (DOMAIN source) \cap AllowedKeys(i)
            /\ \A k \in DOMAIN payload :
                  IF Phase(i) = 4 /\ k \in RewrittenKeys
                  THEN (pc = "done" /\ i = Len(requests) /\ requests[i].run = run
                           /\ requests[i].idx = idx /\ k # POLICY_ID)
                          => payload[k] = Rewritten(source, id_map)[k]
                  ELSE payload[k] = source[k]

\* a feature template, a policy and a device template were POSTed, each from
\* a source object that holds a key outside its allowlist
C27_Witness ==
    /\ pc = "done"
    /\ run = 1
    /\ {Phase(i) : i \in AllPosts} = {1, 2, 4}
    /\ \A i \in AllPosts : (DOMAIN SourceOf(i)) \ AllowedKeys(i) # {}
    /\ Phase(Len(requests)) = 4
    /\ POLICY_ID \in DOMAIN requests[Len(requests)].payload
    /\ UID_RANGE \in DOMAIN template_dict[1].template

\* C28: in every run, whatever status the target answers to the list GETs,
\* the importer never POSTs a create for a feature template, a policy or a
\* device template whose name already exists on the target at the time of
\* the POST.
C28_NoDuplicateCreate ==
    /\ pc = "feature_post" => ~OnTarget(target, EntryName)
    /\ pc = "policy_post" => ~PolicyOnTarget(target, PolicyNameOf(idx))
    /\ pc = "device_post"
          => ~DeviceOnTarget(target, new_device_template[TEMPLATE_NAME])

\* the policy IDs the target lists
PolicyIdsOnTarget == {target.policies[j][POLICY_ID] : j \in DOMAIN target.policies}

\* C29: in every run, including the runs in which the policy POST is answered
\* with an error, a device template that had a policyId is POSTed only with a
\* policyId that is the ID of a policy existing on the target.
C29_PolicyIdIsOnTarget ==
    \A i \in AllPosts :
        (Phase(i) = 4 /\ POLICY_ID \in DOMAIN requests[i].payload)
            => requests[i].payload[POLICY_ID] \in PolicyIdsOnTarget

\* C30: for every Result that parse_response produces from a status code of
\* the error set (ok is false), check_post_response treats it as a failure: it
\* logs it and, with raise_error true, raises.
C30_ErrorResultIsFailure ==
    (CheckedResult /\ called = "parse_response" /\ ErrorStatus /\ ~result.ok)
        => /\ checked.records = << result.reason >>
           /\ checked.stage = "returned" => ~checked.raise_error

-----------------------------------------------------------------------------
(* Viptela.delete_template *)

\* an exception with the message it carries
RaiseWith(name, message) == [kind |-> "Raise", exc |-> name, message |-> message]

\* self.base_url of the object the calls are made on
BaseUrl == "https://test:8443/dataservice"
\* '{0}/template/feature/{1}'.format(self.base_url, query)
TemplateFeatureUrl(query) == <<BaseUrl, "/template/feature/", query>>

\* the arguments of delete_template ('' is the default of both), and whether
\* get_template_feature is the stub of the repository's tests; the feature
\* templates the vManage lists: none, the three of the repository's tests,
\* and one template whose name reads like an ID
InitDelete ==
    /\ args \in [template_name : {"", "mock template", "mock template2", "absent"},
                 template_id : {"", "1", "2"},
                 stubbed : BOOLEAN]
    /\ target \in [features :
                     { <<>>,
                       << [templateName |-> "mock template", templateId |-> "0"],
                          [templateName |-> "mock template1", templateId |-> "1"],
                          [templateName |-> "mock template2", templateId |-> "2"] >>,
                       << [templateName |-> "1", templateId |-> "7"] >> }]
    /\ called = "delete_template"
    /\ result = Pending
    /\ response = <<>>
    /\ sent = NotSent
    /\ checked = NotChecked
    /\ template_dict = <<>>
    /\ faults = 0
    /\ run = 0
    /\ pc = "idle"
    /\ idx = 0
    /\ fi = 0
    /\ id_map = <<>>
    /\ new_device_template = <<>>
    /\ raised = ""
    /\ requests = <<>>
    /\ log = <<>>
    /\ snapshot = <<>>

\* the three branches of delete_template: the else branch hands template_id
\* to find_feature_template as the name to search for
DeleteTemplate ==
    /\ called = "delete_template"
    /\ IF args.template_name = "" /\ args.template_id = ""
       THEN /\ result' = RaiseWith("AttributeError",
                                   "Either template_name or template_id is required")
            /\ called' = "raised"
            /\ UNCHANGED args
       ELSE IF args.template_name # "" /\ args.template_id # ""
       THEN /\ args' = WithKey(args, "query", args.template_id)
            /\ called' = "_delete"
            /\ UNCHANGED result
       ELSE /\ args' = WithKey(args, "find_name", args.template_id)
            /\ called' = "find_feature_template"
            /\ UNCHANGED result
    /\ UNCHANGED <<response, engineVars, checked, sent>>

\* get_template_feature: its first statement reads constants.BASE_TEMPLATE_PATH,
\* a name constants.py does not define; the stub of the tests returns the
\* list under the key 'data' of data
GetTemplateFeature ==
    IF args.stubbed
    THEN [kind |-> "Result", data |-> [data |-> target.features]]
    ELSE RaiseWith("AttributeError",
                   "module 'viptela.constants' has no attribute 'BASE_TEMPLATE_PATH'")

\* find_feature_template: the ID of the first listed template of the name
FindFeatureTemplate ==
    /\ called = "find_feature_template"
    /\ LET all_templates == GetTemplateFeature
       IN  IF all_templates.kind = "Raise"
           THEN /\ result' = all_templates
                /\ called' = "raised"
                /\ UNCHANGED args
           ELSE LET list == all_templates.data[DATA]
                    hits == {j \in DOMAIN list : list[j][TEMPLATE_NAME] = args.find_name}
                IN  IF hits = {}
                    THEN /\ result' = RaiseWith("ValueError", "Template not found")
                         /\ called' = "raised"
                         /\ UNCHANGED args
                    ELSE /\ args' = WithKey(args, "query", list[SetMin(hits)][TEMPLATE_ID])
                         /\ called' = "_delete"
                         /\ UNCHANGED result
    /\ UNCHANGED <<response, engineVars, checked, sent>>

\* 'return self._delete(self.session, url)': the class defines delete and no
\* _delete, so the attribute lookup raises and no request is sent
SelfDelete ==
    /\ called = "_delete"
    /\ args' = WithKey(args, "url", TemplateFeatureUrl(args.query))
    /\ result' = RaiseWith("AttributeError", "'Viptela' object has no attribute '_delete'")
    /\ called' = "raised"
    /\ UNCHANGED <<response, engineVars, checked, sent>>

NextDelete ==
    \/ DeleteTemplate
    \/ FindFeatureTemplate
    \/ SelfDelete

SpecDelete == InitDelete /\ [][NextDelete]_vars

\* the call of delete_template has ended
DeleteEnded == called \in {"raised", "returned"}
\* the ID the list holds for the name
ListedUnder(name) == {j \in DOMAIN target.features : target.features[j][TEMPLATE_NAME] = name}
DeleteSentFor(id) == sent.method = "DELETE" /\ sent.url = TemplateFeatureUrl(id)

\* C24: delete_template raises AttributeError when neither template_name nor
\* template_id is given; when both are given it deletes by the given
\* template_id without any name lookup; when only template_name is given it
\* resolves the ID by searching the feature-template list for that name and
\* issues the delete for '<base_url>/template/feature/<resolved id>'.
C24_DeleteByIdOrName ==
    DeleteEnded
        => /\ (args.template_name = "" /\ args.template_id = "")
                => (result.kind = "Raise" /\ result.exc = "AttributeError")
           /\ (args.template_name # "" /\ args.template_id # "")
                => /\ DeleteSentFor(args.template_id)
                   /\ "find_name" \notin DOMAIN args
           /\ (args.template_name # "" /\ args.template_id = ""
                  /\ ListedUnder(args.template_name) # {})
                => DeleteSentFor(
                       target.features[SetMin(ListedUnder(args.template_name))][TEMPLATE_ID])

-----------------------------------------------------------------------------
(* Viptela.__init__ and Viptela.login *)

\* 'except class' catches the exception e of session.post, by the classes of
\* requests.exceptions it belongs to: ConnectTimeout is a ConnectionError and
\* a Timeout, ReadTimeout is a Timeout only
Caught(e, class) ==
    class \in CASE e = "ConnectionError" -> {"ConnectionError", "RequestException"}
                [] e = "ConnectTimeout" -> {"ConnectTimeout", "ConnectionError", "Timeout",
                                            "RequestException"}
                [] e = "ReadTimeout" -> {"ReadTimeout", "Timeout", "RequestException"}

\* the text of a response, in pieces: the text a body carries, or the text of
\* a body of the normaliser
TextOf(body) == IF "text" \in DOMAIN body THEN body.text
                ELSE IF body.t = "text" THEN <<"bad json">> ELSE <<"{", "}">>
\* str.startswith
StartsWith(text, prefix) == Len(text) > 0 /\ text[1] = prefix

\* the answers to the login POST: an HTML page, a text that holds '<html>'
\* further on, 'bad json', an empty object and the error envelope
LoginResponses ==
    [status_code : StatusCodes, method : {"POST"},
     body : {[t |-> "text", text |-> <<"<html>", "<body>login</body></html>">>],
             [t |-> "text", text |-> <<"error ", "<html>">>],
             NotJson, EmptyDict, ErrorBody}]

InitLogin ==
    /\ args \in [vmanage_server : {"test", "mock_device"}, timeout : {JNum(10), JNum(1)},
                 auto_login : BOOLEAN]
    /\ called = "__init__"
    /\ result = Pending
    /\ response = <<>>
    /\ sent = NotSent
    /\ checked = NotChecked
    /\ EngineIdle

\* the constructor logs in only when auto_login is true
Construct ==
    /\ called = "__init__"
    /\ called' = IF args.auto_login THEN "login" ELSE "constructed"
    /\ UNCHANGED <<response, result, engineVars, checked, args, sent>>

\* what login makes of the Result self.post returned
LoginOutcome(resp, login_result) ==
    IF login_result.kind = "Raise" THEN login_result
    ELSE IF login_result.kind = "None" THEN Raise("AttributeError")
    ELSE IF StartsWith(TextOf(resp.body), "<html>")
    THEN RaiseWith("LoginCredentialsError",
                   "Could not login to device, check user credentials")
    ELSE login_result

\* login: the POST of the credentials either fails in transport (connection
\* refused, no connection within timeout, no answer within timeout) or is
\* answered
Login ==
    /\ called = "login"
    /\ sent' = [method |-> "POST",
                url |-> <<"https://", args.vmanage_server, ":8443/dataservice",
                          "/j_security_check">>,
                headers |-> JObj([k \in {"Content-Type"} |->
                                     JStr("application/x-www-form-urlencoded")]),
                data |-> JObj([k \in {"j_username", "j_password"} |->
                                  IF k = "j_username" THEN JStr("user") ELSE JStr("pass")]),
                timeout |-> args.timeout]
    /\ \/ \E e \in {"ConnectionError", "ConnectTimeout", "ReadTimeout"} :
            /\ response' = Raise(e)
            /\ result' = IF Caught(e, "ConnectionError")
                         THEN RaiseWith("LoginTimeoutError",
                                        <<"Could not connect to ", args.vmanage_server>>)
                         ELSE Raise(e)
            /\ called' = "raised"
       \/ \E resp \in LoginResponses :
            /\ response' = resp
            /\ result' = LoginOutcome(resp, ParseResponse(resp))
            /\ called' = IF result'.kind = "Raise" THEN "raised" ELSE "returned"
    /\ UNCHANGED <<engineVars, checked, args>>

NextLogin ==
    \/ Construct
    \/ Login

SpecLogin == InitLogin /\ [][NextLogin]_vars

\* login has ended; the POST failed in transport; the POST was answered
LoginEnded == called \in {"raised", "returned"}
TransportFailed == LoginEnded /\ "exc" \in DOMAIN response
LoginAnswered == LoginEnded /\ "body" \in DOMAIN response

\* C25: login reports two distinct failures and swallows neither: a transport
\* failure (connection refused or timeout) during the login POST raises
\* LoginTimeoutError 'Could not connect to <server>', and a response whose
\* text begins with '<html>' raises LoginCredentialsError; only otherwise is
\* the login Result returned. With auto_login false the constructor issues
\* no request.
C25_LoginReportsFailures ==
    /\ TransportFailed
          => result = RaiseWith("LoginTimeoutError",
                                <<"Could not connect to ", args.vmanage_server>>)
    /\ (LoginAnswered /\ StartsWith(TextOf(response.body), "<html>"))
          => (result.kind = "Raise" /\ result.exc = "LoginCredentialsError")
    /\ called = "returned"
          => /\ LoginAnswered
             /\ ~StartsWith(TextOf(response.body), "<html>")
             /\ result.kind = "Result"
    /\ ~args.auto_login => sent = NotSent

=============================================================================
